---------------------------- MODULE Spec2Model ----------------------------
(***************************************************************************)
(* GestionMedicaBackend: the REST handlers for authentication,             *)
(* appointments and medical records, over the three Mongoose collections   *)
(* (users, appointments, medical records).                                 *)
(*                                                                         *)
(* A request is one atomic action in the sequential specifications         *)
(* (SpecAppt, SpecAuth, SpecRec): the route's middleware chain (auth,      *)
(* checkRole, the express-validator chain) followed by the controller.     *)
(* The action records the request it served in req and its response in     *)
(* resp; Deliver hands the response to the client, after which the next    *)
(* request is served.  SpecConc splits createAppointment at its awaits,    *)
(* one step per store round trip, for two requests in flight.              *)
(*                                                                         *)
(* The collections are persistent: a server starts on whatever documents   *)
(* the database holds (the test-suite seeds users with User.create and     *)
(* user.save()).  Init therefore draws the collections from bounded sets   *)
(* of schema-valid documents.                                              *)
(***************************************************************************)
EXTENDS Naturals, Sequences, FiniteSets, TLC

VARIABLES
    users,          \* the users collection: a set of user documents
    appointments,   \* the appointments collection: _id -> document
    records,        \* the medicalrecords collection: _id -> document
    strictQuery,    \* the Mongoose build's strictQuery setting (6.x: TRUE, 5.x/7.x: FALSE)
    req,            \* the request being answered: [op, tok, id, body]
    resp,           \* its HTTP response: [status, body, token, user, doc]
    inflight,       \* SpecConc: worker -> the createAppointment request in flight
    patientCancelled, \* history: the appointments last changed by their patient's cancel
    registered      \* history: the credentials of the registrations requested with a new
                    \* email and valid fields

vars == <<users, appointments, records, strictQuery, req, resp, inflight,
          patientCancelled, registered>>

----------------------------------------------------------------------------
(* Values *)

\* Response messages are the source's, written without accents.

\* A field that is not set (JavaScript undefined).
Undefined == "<undefined>"

\* if (x) ... : undefined and the empty string are falsy.
Truthy(v) == v \notin {Undefined, ""}

\* The bound of the model: the number of start times of a day in use.
NumTimes == 2

\* Strings body('date').isDate() and the HH:mm pattern of body('time') accept.
DayNames == <<"2024-06-01", "2024-06-02", "2024-06-03">>
TimeNames == <<"10:00", "11:00", "12:00", "13:00">>
Dates == {DayNames[1], DayNames[2]}
Times == {TimeNames[i] : i \in 1..NumTimes}

\* ObjectId strings.  UnknownId is well formed and names no document;
\* MalformedId is not an ObjectId (a cast error).
UnknownId == "ffffffffffffffffffffffff"
MalformedId == "not-an-objectid"

Roles == {"patient", "doctor", "admin"}
AppointmentStatuses == {"pendiente", "confirmada", "cancelada", "completada"}
AppointmentTypes == {"presencial", "remota"}

----------------------------------------------------------------------------
(* Users collection *)

\* bcrypt.hash / bcrypt.compare: a hash is a tagged value, distinct from its
\* plaintext, and compare succeeds only on the hash of the candidate itself.
Hash(p) == "bcrypt(" \o p \o ")"

\* A comparison that accepts every candidate.
Compare_Always(candidate, stored) == TRUE

Compare(candidate, stored) == stored = Hash(candidate)

UserDoc(id, email, plain, role, documentId) ==
    [ _id |-> id, name |-> "n-" \o id, email |-> email, password |-> Hash(plain),
      role |-> role, documentId |-> documentId,
      birthDate |-> "1990-01-01", phone |-> "123456789", address |-> "Calle Falsa 123" ]

SeedUsers ==
    { UserDoc("p1", "alice@example.com", "password123", "patient", "DOC-1"),
      UserDoc("p2", "carol@example.com", "password456", "patient", "DOC-2"),
      UserDoc("d1", "bob@example.com",   "password123", "doctor",  "DOC-3"),
      UserDoc("d2", "dave@example.com",  "password456", "doctor",  "DOC-4"),
      UserDoc("adm", "root@example.com", "password123", "admin",   "DOC-5") }

\* User.findOne({ _id, role })
FindUserByIdAndRole(id, role) == {u \in users : u._id = id /\ u.role = role}

----------------------------------------------------------------------------
(* Bearer tokens and the two middlewares *)

NoToken == [id |-> "", role |-> "", state |-> "missing"]
TokenFor(u) == [id |-> u._id, role |-> u.role, state |-> "ok"]
ValidTokens == {TokenFor(u) : u \in SeedUsers}

\* Tokens jwt.verify rejects: not a JWT, signed with another secret, or past
\* its expiry.  The identity is the one the token claims.
InvalidTokens ==
    {[id |-> "d1", role |-> "doctor", state |-> st] :
        st \in {"malformed", "badsignature", "expired"}}
    \cup {[id |-> "adm", role |-> "admin", state |-> "expired"]}

\* A token check that lets every request with a token through.
AuthPasses_AnyToken(tok) == tok.state # "missing"

\* jwt.verify inside auth: the decoded identity is attached only when the
\* header is present and the token verifies.
AuthPasses(tok) == tok.state = "ok"

\* A JSON response: the status, the message (or a tag for the kind of payload),
\* and the payload: the token and the profile of the auth endpoints, the
\* document of the record endpoints.
NoProfile == [id |-> "", name |-> "", email |-> "", role |-> ""]
NoDoc == [empty |-> TRUE]
Reply(status, body) ==
    [status |-> status, body |-> body, token |-> NoToken, user |-> NoProfile, doc |-> NoDoc]

AuthFailure(tok) ==
    IF tok.state = "missing"
    THEN Reply(401, "No hay token de autenticacion")
    ELSE Reply(401, "Token invalido")

\* A role check that lets every role through.
checkRole_Any(roles, tok) == TRUE

checkRole(roles, tok) == tok.role \in roles

RoleFailure == Reply(403, "No tiene permisos para realizar esta accion")
ValidationFailure == Reply(400, "<errors>")

\* No request is being answered; a request without a body.
NoBody == [empty |-> TRUE]
NoRequest == [op |-> "none", tok |-> NoToken, id |-> "", body |-> NoBody]
NoResponse == Reply(0, "")
Request(op, tok, id, body) == [op |-> op, tok |-> tok, id |-> id, body |-> body]
Idle == req = NoRequest

\* res.json(...) reaches the client.
Deliver ==
    /\ ~Idle
    /\ req' = NoRequest
    /\ resp' = NoResponse
    /\ UNCHANGED <<users, appointments, records, strictQuery, inflight, patientCancelled, registered>>


----------------------------------------------------------------------------
(* Appointments collection *)

\* appointmentSchema: the document paths.  The schema has no path `time`.
AppointmentDoc(patient, doctor, date, startTime, status) ==
    [ patient |-> patient, doctor |-> doctor, date |-> date,
      startTime |-> startTime, endTime |-> "23:59", type |-> "presencial",
      status |-> status, reason |-> "control", notes |-> Undefined,
      diagnosis |-> Undefined, prescription |-> Undefined ]

IsObjectId(id) == id \notin {Undefined, "", MalformedId}
IsDate(d) == \E i \in DOMAIN DayNames : DayNames[i] = d
IsTime(t) == \E i \in DOMAIN TimeNames : TimeNames[i] = t

\* Document validation run by appointment.save(): required paths, enums, casts.
AppointmentSchemaValid(doc) ==
    /\ IsObjectId(doc.patient)
    /\ IsObjectId(doc.doctor)
    /\ IsDate(doc.date)
    /\ Truthy(doc.startTime)
    /\ Truthy(doc.endTime)
    /\ doc.type \in AppointmentTypes
    /\ doc.status \in AppointmentStatuses
    /\ Truthy(doc.reason)

\* _ids the store hands out; the seeded documents hold the first two.
AppointmentIdPool == {"a1", "a2", "a3", "a4"}
SeededAppointmentIds == {{}, {"a1"}, {"a1", "a2"}}

Slot(a) == <<a.doctor, a.date, a.startTime>>

\* The data-model invariant of section 3, on a store.
NoDoubleBookingIn(store) ==
    \A i, j \in DOMAIN store :
        (i # j /\ store[i].status # "cancelada" /\ store[j].status # "cancelada")
            => Slot(store[i]) # Slot(store[j])

\* The seeded documents: a1 is p1's appointment and a2 is p2's, both with d1.
SeedAppointmentsFor(id) ==
    {AppointmentDoc(IF id = "a1" THEN "p1" ELSE "p2", "d1", d, t, s) :
        d \in Dates, t \in Times, s \in AppointmentStatuses}

SeedAppointmentStores ==
    UNION { {st \in [ids -> UNION {SeedAppointmentsFor(i) : i \in ids}] :
                /\ \A i \in ids : st[i] \in SeedAppointmentsFor(i)
                /\ NoDoubleBookingIn(st)} : ids \in SeededAppointmentIds }

\* Appointment.findById(id): the set of matching ids (at most one).
FindAppointmentById(id) == {i \in DOMAIN appointments : i = id}

\* The availability query of createAppointment:
\*   Appointment.findOne({ doctor, date, time, status: { $ne: 'cancelled' } })
\* `time` is not a schema path: with strictQuery the condition is dropped from
\* the filter, without it the condition is sent and matches no stored document.
ExistingAppointment(doctorId, date, time) ==
    {i \in DOMAIN appointments :
        /\ appointments[i].doctor = doctorId
        /\ appointments[i].date = date
        /\ (strictQuery \/ Undefined = time)
        /\ appointments[i].status # "cancelled"}

\* The document built by createAppointment: `time` is dropped by the strict
\* schema, startTime, endTime and reason are never set.
NewAppointment(b) ==
    [ patient |-> b.patientId, doctor |-> b.doctorId, date |-> b.date,
      startTime |-> Undefined, endTime |-> Undefined, type |-> b.type,
      status |-> "scheduled", reason |-> Undefined, notes |-> b.notes,
      diagnosis |-> Undefined, prescription |-> Undefined ]

NewAppointmentId == CHOOSE i \in AppointmentIdPool : i \notin DOMAIN appointments

\* appointmentValidation (routes/appointments.ts), used by POST / and PUT /:id.
appointmentValidation(b) ==
    /\ Truthy(b.patientId)
    /\ Truthy(b.doctorId)
    /\ IsDate(b.date)
    /\ IsTime(b.time)
    /\ Truthy(b.reason)

\* A permission check that goes by the requester's role, not by identity.
CanViewAppointment_AnyPatient(tok, a) ==
    tok.role = "admin" \/ tok.role = "patient" \/ a.doctor = tok.id

\* The permission checks of the controllers.
CanViewAppointment(tok, a) ==
    tok.role = "admin" \/ a.patient = tok.id \/ a.doctor = tok.id

CanModifyAppointment(tok, a) ==
    tok.role = "admin" \/ a.doctor = tok.id

\* POST /api/appointments, after auth and checkRole: the validation chain and
\* the controller.  The result is the response and the collection afterwards.
CreateAppointmentResult(b) ==
    IF ~appointmentValidation(b)
    THEN [resp |-> ValidationFailure, store |-> appointments]
    ELSE IF ~IsObjectId(b.patientId)
    THEN [resp |-> Reply(500, "Error en el servidor"), store |-> appointments]
    ELSE IF FindUserByIdAndRole(b.patientId, "patient") = {}
    THEN [resp |-> Reply(404, "Paciente no encontrado"), store |-> appointments]
    ELSE IF ~IsObjectId(b.doctorId)
    THEN [resp |-> Reply(500, "Error en el servidor"), store |-> appointments]
    ELSE IF FindUserByIdAndRole(b.doctorId, "doctor") = {}
    THEN [resp |-> Reply(404, "Doctor no encontrado"), store |-> appointments]
    ELSE IF ExistingAppointment(b.doctorId, b.date, b.time) # {}
    THEN [resp |-> Reply(400, "El doctor ya tiene una cita programada en ese horario"),
          store |-> appointments]
    ELSE IF ~AppointmentSchemaValid(NewAppointment(b))
    THEN [resp |-> Reply(500, "Error en el servidor"), store |-> appointments]
    ELSE [resp |-> Reply(201, "<appointment>"),
          store |-> appointments @@ (NewAppointmentId :> NewAppointment(b))]

Guarded(tok, roles, result) ==
    IF ~AuthPasses(tok) THEN [resp |-> AuthFailure(tok), store |-> appointments]
    ELSE IF roles # {} /\ ~checkRole(roles, tok)
    THEN [resp |-> RoleFailure, store |-> appointments]
    ELSE result

createAppointment(tok, b) ==
    LET r == Guarded(tok, {"admin", "doctor"}, CreateAppointmentResult(b)) IN
    /\ Idle
    /\ DOMAIN appointments # AppointmentIdPool
    /\ req' = Request("createAppointment", tok, "", b)
    /\ resp' = r.resp
    /\ appointments' = r.store
    /\ UNCHANGED <<users, records, strictQuery, inflight, patientCancelled, registered>>

\* GET /api/appointments/:id
GetAppointmentByIdResult(tok, id) ==
    IF ~IsObjectId(id)
    THEN Reply(500, "Error al obtener la cita")
    ELSE IF FindAppointmentById(id) = {}
    THEN Reply(404, "Cita no encontrada")
    ELSE IF ~CanViewAppointment(tok, appointments[id])
    THEN Reply(403, "No tiene permisos para ver esta cita")
    ELSE Reply(200, "<appointment>")

getAppointmentById(tok, id) ==
    /\ Idle
    /\ req' = Request("getAppointmentById", tok, id, NoBody)
    /\ resp' = Guarded(tok, {}, [resp |-> GetAppointmentByIdResult(tok, id),
                                 store |-> appointments]).resp
    /\ UNCHANGED <<users, appointments, records, strictQuery, inflight, patientCancelled, registered>>

\* An update that also takes the participants from the body.
ApplyUpdate_WithParticipants(a, b) ==
    [ a EXCEPT
        !.patient = IF Truthy(b.patientId) THEN b.patientId ELSE @,
        !.doctor = IF Truthy(b.doctorId) THEN b.doctorId ELSE @,
        !.date = IF Truthy(b.date) THEN b.date ELSE @,
        !.startTime = IF Truthy(b.startTime) THEN b.startTime ELSE @,
        !.endTime = IF Truthy(b.endTime) THEN b.endTime ELSE @,
        !.type = IF Truthy(b.type) THEN b.type ELSE @,
        !.status = IF Truthy(b.status) THEN b.status ELSE @,
        !.notes = IF Truthy(b.notes) THEN b.notes ELSE @,
        !.diagnosis = IF Truthy(b.diagnosis) THEN b.diagnosis ELSE @,
        !.prescription = IF Truthy(b.prescription) THEN b.prescription ELSE @ ]

\* The assignments of updateAppointment: a field is applied when it is truthy.
ApplyUpdate(a, b) ==
    [ a EXCEPT
        !.date = IF Truthy(b.date) THEN b.date ELSE @,
        !.startTime = IF Truthy(b.startTime) THEN b.startTime ELSE @,
        !.endTime = IF Truthy(b.endTime) THEN b.endTime ELSE @,
        !.type = IF Truthy(b.type) THEN b.type ELSE @,
        !.status = IF Truthy(b.status) THEN b.status ELSE @,
        !.notes = IF Truthy(b.notes) THEN b.notes ELSE @,
        !.diagnosis = IF Truthy(b.diagnosis) THEN b.diagnosis ELSE @,
        !.prescription = IF Truthy(b.prescription) THEN b.prescription ELSE @ ]

\* PUT /api/appointments/:id, after auth and checkRole.
UpdateAppointmentResult(tok, id, b) ==
    IF ~appointmentValidation(b)
    THEN [resp |-> ValidationFailure, store |-> appointments]
    ELSE IF ~IsObjectId(id)
    THEN [resp |-> Reply(500, "Error al actualizar la cita"), store |-> appointments]
    ELSE IF FindAppointmentById(id) = {}
    THEN [resp |-> Reply(404, "Cita no encontrada"), store |-> appointments]
    ELSE IF ~CanModifyAppointment(tok, appointments[id])
    THEN [resp |-> Reply(403, "No tiene permisos para modificar esta cita"),
          store |-> appointments]
    ELSE IF ~AppointmentSchemaValid(ApplyUpdate(appointments[id], b))
    THEN [resp |-> Reply(500, "Error al actualizar la cita"), store |-> appointments]
    ELSE [resp |-> Reply(200, "<appointment>"),
          store |-> [appointments EXCEPT ![id] = ApplyUpdate(@, b)]]

updateAppointment(tok, id, b) ==
    LET r == Guarded(tok, {"admin", "doctor"}, UpdateAppointmentResult(tok, id, b)) IN
    /\ Idle
    /\ req' = Request("updateAppointment", tok, id, b)
    /\ resp' = r.resp
    /\ appointments' = r.store
    /\ patientCancelled' = IF r.resp.status = 200 THEN patientCancelled \ {id}
                           ELSE patientCancelled
    /\ UNCHANGED <<users, records, strictQuery, inflight, registered>>

\* A cancel that leaves a completed or cancelled appointment as it is.
CancelAppointmentResult_TerminalChecked(tok, id) ==
    IF ~IsObjectId(id)
    THEN [resp |-> Reply(500, "Error al cancelar la cita"), store |-> appointments]
    ELSE IF FindAppointmentById(id) = {}
    THEN [resp |-> Reply(404, "Cita no encontrada"), store |-> appointments]
    ELSE IF ~CanViewAppointment(tok, appointments[id])
    THEN [resp |-> Reply(403, "No tiene permisos para cancelar esta cita"),
          store |-> appointments]
    ELSE IF appointments[id].status \in {"completada", "cancelada"}
    THEN [resp |-> Reply(400, "La cita ya esta cerrada"), store |-> appointments]
    ELSE [resp |-> Reply(200, "Cita cancelada exitosamente"),
          store |-> [appointments EXCEPT ![id].status = "cancelada"]]

\* PATCH /api/appointments/:id/cancel
CancelAppointmentResult(tok, id) ==
    IF ~IsObjectId(id)
    THEN [resp |-> Reply(500, "Error al cancelar la cita"), store |-> appointments]
    ELSE IF FindAppointmentById(id) = {}
    THEN [resp |-> Reply(404, "Cita no encontrada"), store |-> appointments]
    ELSE IF ~CanViewAppointment(tok, appointments[id])
    THEN [resp |-> Reply(403, "No tiene permisos para cancelar esta cita"),
          store |-> appointments]
    ELSE [resp |-> Reply(200, "Cita cancelada exitosamente"),
          store |-> [appointments EXCEPT ![id].status = "cancelada"]]

cancelAppointment(tok, id) ==
    LET r == Guarded(tok, {}, CancelAppointmentResult(tok, id)) IN
    /\ Idle
    /\ req' = Request("cancelAppointment", tok, id, NoBody)
    /\ resp' = r.resp
    /\ appointments' = r.store
    /\ patientCancelled' =
            IF r.resp.status = 200 /\ tok.id = appointments[id].patient
            THEN patientCancelled \cup {id} ELSE patientCancelled
    /\ UNCHANGED <<users, records, strictQuery, inflight, registered>>

\* The position of a day in the calendar; a string that is no date has none.
DayIndex(d) == CHOOSE i \in DOMAIN DayNames : DayNames[i] = d

\* A role scope that lets every appointment through.
InAppointmentScope_All(tok, a) == TRUE

\* getAppointments: the condition the requester's role adds to the query.
InAppointmentScope(tok, a) ==
    /\ tok.role = "patient" => a.patient = tok.id
    /\ tok.role = "doctor" => a.doctor = tok.id

\* getAppointments: the conditions built from the query string.  The date
\* range is applied only when both ends are given; the status is compared
\* as sent.
InAppointmentFilters(q, a) ==
    /\ (Truthy(q.startDate) /\ Truthy(q.endDate))
            => /\ DayIndex(q.startDate) <= DayIndex(a.date)
               /\ DayIndex(a.date) <= DayIndex(q.endDate)
    /\ Truthy(q.status) => a.status = q.status

\* new Date(...) of a string that is no date is an Invalid Date, which the
\* query cannot cast.
QueryCastOk(q) ==
    (Truthy(q.startDate) /\ Truthy(q.endDate)) => (IsDate(q.startDate) /\ IsDate(q.endDate))

\* sort({ date: 1, startTime: 1 }): the appointments of a set of ids in
\* ascending order of date and start time (ties in the order the store
\* yields them, one of which is taken).
SortKeyLeq(a, b) ==
    \/ DayIndex(a.date) < DayIndex(b.date)
    \/ a.date = b.date /\ \E i, j \in DOMAIN TimeNames :
            /\ i <= j
            /\ TimeNames[i] = a.startTime
            /\ TimeNames[j] = b.startTime

SortedAppointments(ids) ==
    LET n == Cardinality(ids)
        order == CHOOSE f \in [1..n -> ids] :
                    /\ \A i, j \in 1..n : i # j => f[i] # f[j]
                    /\ \A i, j \in 1..n :
                            i < j => SortKeyLeq(appointments[f[i]], appointments[f[j]])
    IN [i \in 1..n |-> [id |-> order[i], doc |-> appointments[order[i]]]]

ReplyList(list) == [Reply(200, "<list>") EXCEPT !.doc = [list |-> list]]

\* GET /api/appointments, after auth.  searchValidation ends in no error
\* handler and the controller does not read validationResult, so a filter
\* that fails the chain still reaches the query.
GetAppointmentsResult(tok, q) ==
    IF ~QueryCastOk(q) THEN Reply(500, "Error al obtener las citas")
    ELSE ReplyList(SortedAppointments(
            {i \in DOMAIN appointments :
                InAppointmentFilters(q, appointments[i])
                /\ InAppointmentScope(tok, appointments[i])}))

getAppointments(tok, q) ==
    /\ Idle
    /\ req' = Request("getAppointments", tok, "", q)
    /\ resp' = IF ~AuthPasses(tok) THEN AuthFailure(tok) ELSE GetAppointmentsResult(tok, q)
    /\ UNCHANGED <<users, appointments, records, strictQuery, inflight,
                   patientCancelled, registered>>

----------------------------------------------------------------------------
(* SpecAppt: appointment requests, one at a time *)

\* Query strings of the list.
NotADate == "no-es-fecha"
AppointmentQuery(startDate, endDate, status) ==
    [startDate |-> startDate, endDate |-> endDate, status |-> status]
AppointmentQueries ==
    {AppointmentQuery(sd, ed, st) :
        sd \in {Undefined, DayNames[1], DayNames[2], NotADate},
        ed \in {Undefined, DayNames[1]},
        st \in {Undefined, "cancelada", "archivada"}}

ApptTokens == ValidTokens \cup {NoToken}
ApptIdParams == {"a1", "a2", UnknownId, MalformedId}
Doctor1 == TokenFor(UserDoc("d1", "bob@example.com", "password123", "doctor", "DOC-3"))
Patient1 == TokenFor(UserDoc("p1", "alice@example.com", "password123", "patient", "DOC-1"))
Admin1 == TokenFor(UserDoc("adm", "root@example.com", "password123", "admin", "DOC-5"))
ListTokens == {Patient1, Doctor1, Admin1, NoToken}

CreateBody(patientId, doctorId, date, time, reason) ==
    [ patientId |-> patientId, doctorId |-> doctorId, date |-> date, time |-> time,
      reason |-> reason, type |-> "presencial", notes |-> Undefined ]

CreateBodies ==
    {CreateBody(p, d, dt, t, "control") :
        p \in {"p1", "d1", UnknownId}, d \in {"d1", "d2", "p1"},
        dt \in Dates, t \in Times}

OtherCreateBodies ==
    {CreateBody("p2", "d1", DayNames[1], TimeNames[1], "control"),
     CreateBody("p1", "d1", DayNames[1], TimeNames[1], ""),
     CreateBody(MalformedId, "d1", DayNames[1], TimeNames[1], "control"),
     CreateBody("p1", MalformedId, DayNames[1], TimeNames[1], "control")}

UpdateBody(date, startTime, status) ==
    [ patientId |-> "p2", doctorId |-> "d2", date |-> date, time |-> TimeNames[1],
      reason |-> "control", startTime |-> startTime, endTime |-> Undefined,
      type |-> Undefined, status |-> status, notes |-> Undefined,
      diagnosis |-> Undefined, prescription |-> Undefined ]

\* A body that carries one updatable field and none of the fields the
\* validation chain of the route requires.
StatusOnlyBody(status) ==
    [ UpdateBody(Undefined, Undefined, status) EXCEPT
        !.patientId = Undefined, !.doctorId = Undefined,
        !.time = Undefined, !.reason = Undefined ]

SlotUpdateBodies ==
    {UpdateBody(d, t, s) :
        d \in Dates, t \in Times \cup {Undefined},
        s \in AppointmentStatuses \cup {Undefined, "scheduled"}}

OtherUpdateBodies ==
    {UpdateBody(DayNames[2], TimeNames[2], "confirmada"), StatusOnlyBody("confirmada")}

InitAppt ==
    /\ users = SeedUsers
    /\ appointments \in SeedAppointmentStores
    /\ records = <<>>
    /\ strictQuery \in BOOLEAN
    /\ req = NoRequest
    /\ resp = NoResponse
    /\ inflight = <<>>
    /\ patientCancelled = {}
    /\ registered = {}

\* The requests of the referenced doctor range over every body; the other
\* requesters (no token, patients, the other doctor, the admin) and the
\* unknown and malformed ids range over a few.
NextAppt ==
    \/ \E b \in CreateBodies : createAppointment(Doctor1, b)
    \/ \E tok \in ApptTokens, b \in OtherCreateBodies : createAppointment(tok, b)
    \/ \E tok \in ApptTokens, id \in ApptIdParams : getAppointmentById(tok, id)
    \/ \E id \in {"a1", "a2"}, b \in SlotUpdateBodies : updateAppointment(Doctor1, id, b)
    \/ \E tok \in ApptTokens, id \in ApptIdParams, b \in OtherUpdateBodies :
            updateAppointment(tok, id, b)
    \/ \E tok \in ApptTokens, id \in ApptIdParams : cancelAppointment(tok, id)
    \/ \E tok \in ListTokens, q \in AppointmentQueries : getAppointments(tok, q)
    \/ Deliver

SpecAppt == InitAppt /\ [][NextAppt]_vars

----------------------------------------------------------------------------
(* Claims on the appointment scheduler *)

\* A non-cancelled appointment holds the slot (doctor, date, start time).
SlotTaken(doctorId, date, time) ==
    \E i \in DOMAIN appointments :
        /\ Slot(appointments[i]) = <<doctorId, date, time>>
        /\ appointments[i].status # "cancelada"

\* A create request that reaches the availability query: an authenticated
\* doctor or admin, a body the validation chain accepts, an existing patient
\* and an existing doctor.
ReachesAvailabilityQuery(tok, b) ==
    /\ AuthPasses(tok)
    /\ tok.role \in {"admin", "doctor"}
    /\ appointmentValidation(b)
    /\ \E u \in users : u._id = b.patientId /\ u.role = "patient"
    /\ \E u \in users : u._id = b.doctorId /\ u.role = "doctor"

\* C1: no double-booking.  In every state reached by appointment create,
\* update and cancel requests run one at a time, no two stored appointments
\* with a status other than cancelada share a doctor, date and start time.
C1_NoDoubleBooking == NoDoubleBookingIn(appointments)

\* C2: while a non-cancelled appointment holds (D, d, t), a create request for
\* the same (D, d, t), with any patient, is answered 400 with the slot-conflict
\* message and stores nothing.
C2_SlotConflict ==
    [][( /\ req'.op = "createAppointment"
         /\ ReachesAvailabilityQuery(req'.tok, req'.body)
         /\ SlotTaken(req'.body.doctorId, req'.body.date, req'.body.time) )
        => /\ resp' = Reply(400, "El doctor ya tiene una cita programada en ese horario")
           /\ appointments' = appointments]_vars

\* C3: cancelling frees the slot.  After an appointment for (D, d, t) was
\* cancelled by its patient its status is cancelada, and a create request for
\* (D, d, t), no other appointment holding the slot, succeeds with 201 and
\* stores one new appointment for the slot.
C3_CancelFreesSlot ==
    [][( /\ req'.op = "createAppointment"
         /\ ReachesAvailabilityQuery(req'.tok, req'.body)
         /\ \E i \in patientCancelled :
                Slot(appointments[i]) = <<req'.body.doctorId, req'.body.date, req'.body.time>>
         /\ ~SlotTaken(req'.body.doctorId, req'.body.date, req'.body.time) )
        => /\ \A i \in patientCancelled : appointments[i].status = "cancelada"
           /\ resp'.status = 201
           /\ Cardinality(DOMAIN appointments') = Cardinality(DOMAIN appointments) + 1
           /\ \E i \in DOMAIN appointments' :
                /\ Slot(appointments'[i]) = <<req'.body.doctorId, req'.body.date, req'.body.time>>
                /\ appointments'[i].status # "cancelada"]_vars

\* C7: getById and cancel on a stored appointment succeed exactly for an
\* admin, the referenced patient and the referenced doctor; every other
\* authenticated requester gets 403 and the collection is unchanged.
C7_ViewCancelAuthorization ==
    [][( /\ req'.op \in {"getAppointmentById", "cancelAppointment"}
         /\ req'.tok.state = "ok"
         /\ req'.id \in DOMAIN appointments )
        => LET a == appointments[req'.id]
               allowed == \/ req'.tok.role = "admin"
                          \/ req'.tok.id = a.patient
                          \/ req'.tok.id = a.doctor
           IN  /\ allowed => resp'.status = 200
               /\ ~allowed => resp'.status = 403 /\ appointments' = appointments
               /\ (allowed /\ req'.op = "cancelAppointment") =>
                    appointments' = [appointments EXCEPT ![req'.id].status = "cancelada"]
               /\ req'.op = "getAppointmentById" => appointments' = appointments]_vars

\* C7 witness: a patient's cancel of another patient's appointment was refused
\* with 403, and that appointment is not cancelled.
C7_Witness ==
    /\ req.op = "cancelAppointment"
    /\ req.tok.role = "patient"
    /\ req.id \in DOMAIN appointments
    /\ appointments[req.id].patient # req.tok.id
    /\ appointments[req.id].status # "cancelada"
    /\ resp.status = 403


----------------------------------------------------------------------------
(* SpecConc: two createAppointment requests in flight *)

\* The event loop interleaves the two requests at the awaits of the
\* controller: the patient lookup, the doctor lookup, the availability query
\* and the save are one store round trip each.
Workers == {"w1", "w2"}
Other(w) == CHOOSE o \in Workers : o # w

IdleWorker ==
    [pc |-> "idle", tok |-> NoToken, body |-> NoBody, resp |-> NoResponse,
     passedCheck |-> FALSE, raced |-> FALSE]

Finish(w, response) ==
    inflight' = [inflight EXCEPT ![w].pc = "done", ![w].resp = response]

Goto(w, pc) == inflight' = [inflight EXCEPT ![w].pc = pc]

\* auth, checkRole, the validation chain and validationResult.
Receive(w, tok, b) ==
    /\ inflight[w].pc = "idle"
    /\ inflight' = [inflight EXCEPT ![w] =
            [IdleWorker EXCEPT
                !.tok = tok, !.body = b,
                !.pc = IF AuthPasses(tok) /\ checkRole({"admin", "doctor"}, tok)
                          /\ appointmentValidation(b)
                       THEN "findPatient" ELSE "done",
                !.resp = IF ~AuthPasses(tok) THEN AuthFailure(tok)
                         ELSE IF ~checkRole({"admin", "doctor"}, tok) THEN RoleFailure
                         ELSE IF ~appointmentValidation(b) THEN ValidationFailure
                         ELSE NoResponse]]
    /\ UNCHANGED <<users, appointments, records, strictQuery, req, resp, patientCancelled, registered>>

FindPatient(w) ==
    /\ inflight[w].pc = "findPatient"
    /\ IF ~IsObjectId(inflight[w].body.patientId)
       THEN Finish(w, Reply(500, "Error en el servidor"))
       ELSE IF FindUserByIdAndRole(inflight[w].body.patientId, "patient") = {}
       THEN Finish(w, Reply(404, "Paciente no encontrado"))
       ELSE Goto(w, "findDoctor")
    /\ UNCHANGED <<users, appointments, records, strictQuery, req, resp, patientCancelled, registered>>

FindDoctor(w) ==
    /\ inflight[w].pc = "findDoctor"
    /\ IF ~IsObjectId(inflight[w].body.doctorId)
       THEN Finish(w, Reply(500, "Error en el servidor"))
       ELSE IF FindUserByIdAndRole(inflight[w].body.doctorId, "doctor") = {}
       THEN Finish(w, Reply(404, "Doctor no encontrado"))
       ELSE Goto(w, "checkAvailability")
    /\ UNCHANGED <<users, appointments, records, strictQuery, req, resp, patientCancelled, registered>>

SameSlotRequested(b1, b2) ==
    b1.doctorId = b2.doctorId /\ b1.date = b2.date /\ b1.time = b2.time

\* The availability query.  raced records that the other request had passed
\* its own query for the same slot and had not saved yet.
CheckAvailability(w) ==
    LET b == inflight[w].body
        o == inflight[Other(w)] IN
    /\ inflight[w].pc = "checkAvailability"
    /\ IF ExistingAppointment(b.doctorId, b.date, b.time) # {}
       THEN Finish(w, Reply(400, "El doctor ya tiene una cita programada en ese horario"))
       ELSE inflight' = [inflight EXCEPT
                ![w].pc = "save",
                ![w].passedCheck = TRUE,
                ![w].raced = o.pc = "save" /\ SameSlotRequested(o.body, b)]
    /\ UNCHANGED <<users, appointments, records, strictQuery, req, resp, patientCancelled, registered>>

\* new Appointment({...}).save(): schema validation, then the insert.  No
\* index of the collection is unique, so the insert itself never fails.
Save(w) ==
    LET doc == NewAppointment(inflight[w].body) IN
    /\ inflight[w].pc = "save"
    /\ DOMAIN appointments # AppointmentIdPool
    /\ IF ~AppointmentSchemaValid(doc)
       THEN /\ Finish(w, Reply(500, "Error en el servidor"))
            /\ UNCHANGED appointments
       ELSE /\ Finish(w, Reply(201, "<appointment>"))
            /\ appointments' = appointments @@ (NewAppointmentId :> doc)
    /\ UNCHANGED <<users, records, strictQuery, req, resp, patientCancelled, registered>>

\* The response reaches the client; the connection serves the next request.
Respond(w) ==
    /\ inflight[w].pc = "done"
    /\ inflight' = [inflight EXCEPT ![w] = IdleWorker]
    /\ UNCHANGED <<users, appointments, records, strictQuery, req, resp, patientCancelled, registered>>

ConcTokens == {Doctor1, Patient1}
ConcBodies ==
    {CreateBody(p, d, DayNames[1], t, "control") :
        p \in {"p1", "p2", UnknownId}, d \in {"d1", "p1"}, t \in Times}

\* The collection the two requests start on: empty, or one seeded appointment.
ConcAppointmentStores == {st \in SeedAppointmentStores : DOMAIN st \subseteq {"a1"}}

InitConc ==
    /\ users = SeedUsers
    /\ appointments \in ConcAppointmentStores
    /\ records = <<>>
    /\ strictQuery \in BOOLEAN
    /\ req = NoRequest
    /\ resp = NoResponse
    /\ inflight = [w \in Workers |-> IdleWorker]
    /\ patientCancelled = {}
    /\ registered = {}

NextConc ==
    \/ \E w \in Workers, tok \in ConcTokens, b \in ConcBodies : Receive(w, tok, b)
    \/ \E w \in Workers : FindPatient(w)
    \/ \E w \in Workers : FindDoctor(w)
    \/ \E w \in Workers : CheckAvailability(w)
    \/ \E w \in Workers : Save(w)
    \/ \E w \in Workers : Respond(w)

SpecConc == InitConc /\ [][NextConc]_vars

\* C4: when two create requests for the same doctor and slot both pass the
\* availability query before either saves, both inserts go through: both are
\* answered 201 and the slot then holds two non-cancelled appointments.
C4_ConcurrentCreatesBothInsert ==
    \A w \in Workers :
        LET me == inflight[w]
            o == inflight[Other(w)] IN
        (/\ me.pc = "done" /\ me.raced
         /\ o.pc = "done" /\ o.passedCheck
         /\ SameSlotRequested(o.body, me.body))
        => /\ me.resp.status = 201
           /\ o.resp.status = 201
           /\ \E i, j \in DOMAIN appointments :
                /\ i # j
                /\ appointments[i].status # "cancelada"
                /\ appointments[j].status # "cancelada"
                /\ appointments[i].doctor = me.body.doctorId
                /\ appointments[j].doctor = me.body.doctorId
                /\ appointments[i].date = me.body.date
                /\ appointments[j].date = me.body.date


----------------------------------------------------------------------------
(* Authentication: register, login, profile *)

MinPasswordLength == 6

\* The strings isEmail() accepts, among the ones in use.
EmailStrings ==
    {"alice@example.com", "ALICE@EXAMPLE.COM", "bob@example.com", "new@example.com",
     "New@Example.com"}
IsEmail(s) == s \in EmailStrings

\* The lowercase setter of the email path; it runs on documents and on the
\* conditions of a query alike.
Lower(s) ==
    IF s = "ALICE@EXAMPLE.COM" THEN "alice@example.com"
    ELSE IF s = "New@Example.com" THEN "new@example.com"
    ELSE s

registerValidation(b) ==
    /\ IsEmail(b.email)
    /\ b.password # Undefined /\ Len(b.password) >= MinPasswordLength
    /\ Truthy(b.name)
    /\ b.role \in {"admin", "doctor", "patient"}

loginValidation(b) ==
    /\ IsEmail(b.email)
    /\ Truthy(b.password)

\* A lookup that finds no user, whatever the email.
FindUserByEmail_None(email) == {}

\* User.findOne({ email })
FindUserByEmail(email) == {u \in users : u.email = Lower(email)}

UserIdPool == {"u1", "u2", "u3"}
NewUserId == CHOOSE i \in UserIdPool : \A u \in users : u._id # i

\* new User({ name, email, password, role, documentId, documentType }) with
\* the password replaced by its hash: of the body only the destructured
\* fields reach the document, and documentType is not a path of the schema.
NewUser(b) ==
    [ _id |-> NewUserId, name |-> b.name, email |-> Lower(b.email),
      password |-> Hash(b.password), role |-> b.role, documentId |-> b.documentId,
      birthDate |-> Undefined, phone |-> Undefined, address |-> Undefined ]

\* userSchema validation, run by save() before the pre('save') hook.
UserSchemaValid(d) ==
    /\ Truthy(d.name)
    /\ IsEmail(d.email)
    /\ d.password # Undefined /\ Len(d.password) >= MinPasswordLength
    /\ d.role \in Roles
    /\ Truthy(d.documentId)
    /\ Truthy(d.birthDate)
    /\ Truthy(d.phone)
    /\ Truthy(d.address)

\* The pre('save') hook: the password was set, so it is hashed (again).
PreSave(d) == [d EXCEPT !.password = Hash(@)]

\* The unique indexes on email and documentId.
DuplicateKeyField(d) ==
    IF \E u \in users : u.email = d.email THEN "email"
    ELSE IF \E u \in users : u.documentId = d.documentId THEN "documentId"
    ELSE "none"

PublicProfile(u) == [id |-> u._id, name |-> u.name, email |-> u.email, role |-> u.role]

AuthReply(status, body, u) ==
    [Reply(status, body) EXCEPT !.token = TokenFor(u), !.user = PublicProfile(u)]

\* POST /api/auth/register: the validation chain and the controller.
RegisterResult(b) ==
    IF ~registerValidation(b)
    THEN [resp |-> ValidationFailure, store |-> users]
    ELSE IF FindUserByEmail(b.email) # {}
    THEN [resp |-> Reply(400, "El usuario ya existe"), store |-> users]
    ELSE IF ~UserSchemaValid(NewUser(b))
    THEN [resp |-> Reply(500, "Error en el servidor"), store |-> users]
    ELSE IF DuplicateKeyField(NewUser(b)) = "email"
    THEN [resp |-> Reply(400, "Ya existe un usuario con ese correo electronico"),
          store |-> users]
    ELSE IF DuplicateKeyField(NewUser(b)) = "documentId"
    THEN [resp |-> Reply(400, "Ya existe un usuario con ese documento"), store |-> users]
    ELSE [resp |-> AuthReply(200, "", PreSave(NewUser(b))),
          store |-> users \cup {PreSave(NewUser(b))}]

\* What a registration asks for: valid fields and an email and a document
\* identifier no stored user has.
WellFormedRegistration(b) ==
    /\ registerValidation(b)
    /\ Truthy(b.documentId) /\ Truthy(b.birthDate) /\ Truthy(b.phone) /\ Truthy(b.address)
    /\ \A u \in users : u.email # Lower(b.email) /\ u.documentId # b.documentId

register(b) ==
    LET r == RegisterResult(b) IN
    /\ Idle
    /\ \E i \in UserIdPool : \A u \in users : u._id # i
    /\ req' = Request("register", NoToken, "", b)
    /\ resp' = r.resp
    /\ users' = r.store
    /\ registered' = IF WellFormedRegistration(b)
                     THEN registered \cup
                            {[email |-> b.email, password |-> b.password, role |-> b.role]}
                     ELSE registered
    /\ UNCHANGED <<appointments, records, strictQuery, inflight, patientCancelled>>

\* POST /api/auth/login
LoginResult(b) ==
    IF ~loginValidation(b) THEN ValidationFailure
    ELSE IF FindUserByEmail(b.email) = {} THEN Reply(401, "Credenciales invalidas")
    ELSE LET u == CHOOSE x \in FindUserByEmail(b.email) : TRUE IN
         IF ~Compare(b.password, u.password) THEN Reply(401, "Credenciales invalidas")
         ELSE AuthReply(200, "Login exitoso", u)

login(b) ==
    /\ Idle
    /\ req' = Request("login", NoToken, "", b)
    /\ resp' = LoginResult(b)
    /\ UNCHANGED <<users, appointments, records, strictQuery, inflight,
                   patientCancelled, registered>>

\* GET /api/auth/profile: the user of the token, without the password.
GetProfileResult(tok) ==
    IF ~AuthPasses(tok) THEN AuthFailure(tok)
    ELSE IF ~Truthy(tok.id) THEN Reply(401, "No autorizado")
    ELSE IF ~IsObjectId(tok.id) THEN Reply(500, "Error en el servidor")
    ELSE IF \A u \in users : u._id # tok.id THEN Reply(404, "Usuario no encontrado")
    ELSE LET u == CHOOSE x \in users : x._id = tok.id IN
         [Reply(200, "<user>") EXCEPT !.user = PublicProfile(u)]

getProfile(tok) ==
    /\ Idle
    /\ req' = Request("getProfile", tok, "", NoBody)
    /\ resp' = GetProfileResult(tok)
    /\ UNCHANGED <<users, appointments, records, strictQuery, inflight,
                   patientCancelled, registered>>

----------------------------------------------------------------------------
(* SpecAuth: authentication requests, one at a time *)

RegisterBody(email, password, name, role, documentId) ==
    [ email |-> email, password |-> password, name |-> name, role |-> role,
      documentId |-> documentId, documentType |-> "CC",
      birthDate |-> "1990-01-01", phone |-> "123456789", address |-> "Calle Falsa 123" ]

RegisterBodies ==
    {RegisterBody(e, p, n, r, d) :
        e \in {"alice@example.com", "ALICE@EXAMPLE.COM", "new@example.com", "not-an-email"},
        p \in {"password123", "short"},
        n \in {"Test User", ""},
        r \in {"patient", "doctor", "nurse"},
        d \in {"DOC-1", "ABC123456", Undefined}}

LoginBodies ==
    {[email |-> e, password |-> p] :
        e \in {"alice@example.com", "ALICE@EXAMPLE.COM", "bob@example.com",
               "new@example.com", "not-an-email"},
        p \in {"password123", "password456", ""}}

\* The users the server starts on: the seeded users, with or without the
\* two whose emails the requests use.
SeedUserSets ==
    {SeedUsers \ gone :
        gone \in SUBSET {u \in SeedUsers : u.email \in {"alice@example.com", "bob@example.com"}}}

InitAuth ==
    /\ users \in SeedUserSets
    /\ appointments = <<>>
    /\ records = <<>>
    /\ strictQuery \in BOOLEAN
    /\ req = NoRequest
    /\ resp = NoResponse
    /\ inflight = <<>>
    /\ patientCancelled = {}
    /\ registered = {}

NextAuth ==
    \/ \E b \in RegisterBodies : register(b)
    \/ \E b \in LoginBodies : login(b)
    \/ \E tok \in ValidTokens \cup {NoToken} : getProfile(tok)
    \/ Deliver

SpecAuth == InitAuth /\ [][NextAuth]_vars

\* C5: a registration with a new email and valid fields, followed by a login
\* with the same email and plaintext password, ends in a successful login
\* whose token carries the role given at registration.
C5_RegisterThenLogin ==
    [][\A r \in registered :
        (req'.op = "login" /\ req'.body.email = r.email /\ req'.body.password = r.password)
        => (resp'.status = 200 /\ resp'.token.state = "ok" /\ resp'.token.role = r.role)]_vars

\* C6 as stated: a register request with a stored email is answered 400 with
\* the message that the user already exists, whatever its other fields, and
\* the stored users are unchanged.
C6_DuplicateUserAnyFields ==
    [][(req'.op = "register" /\ \E u \in users : u.email = req'.body.email)
        => (resp' = Reply(400, "El usuario ya existe") /\ users' = users)]_vars

\* C6: a register request with a stored email is answered 400 and the stored
\* users are unchanged; the answer is the message that the user already
\* exists when the other fields pass the validation chain, and the list of
\* validation errors when they do not.
C6_DuplicateUser ==
    [][(req'.op = "register" /\ \E u \in users : u.email = req'.body.email)
        => /\ resp'.status = 400
           /\ users' = users
           /\ registerValidation(req'.body) => resp' = Reply(400, "El usuario ya existe")
           /\ ~registerValidation(req'.body) => resp' = ValidationFailure]_vars

\* C6 witness: a registration whose email is stored, with a role and a
\* document identifier other than the stored user's, answered that the user
\* already exists.
C6_Witness ==
    /\ req.op = "register"
    /\ \E u \in users :
        /\ u.email = req.body.email
        /\ u.role # req.body.role
        /\ u.documentId # req.body.documentId
    /\ resp = Reply(400, "El usuario ya existe")

\* C10: a register request with a new email and valid fields is answered
\* 201 with a token and a profile that carries the registered email and no
\* password, and exactly one user is added to the collection.
C10_RegisterCreatesUser ==
    [][(req'.op = "register" /\ WellFormedRegistration(req'.body))
        => /\ resp'.status = 201
           /\ resp'.token.state = "ok"
           /\ resp'.user.email = Lower(req'.body.email)
           /\ "password" \notin DOMAIN resp'.user
           /\ users \subseteq users'
           /\ Cardinality(users' \ users) = 1
           /\ \E u \in users' \ users : u.email = Lower(req'.body.email)]_vars


----------------------------------------------------------------------------
(* Medical records collection *)

RecordTypes == {"consulta", "emergencia", "control", "procedimiento"}

\* Vital signs.  A number is written as its digits.  A blood pressure is
\* either the string the validation chain asks for ("120/80") or the object
\* { systolic, diastolic } of the schema.
BloodPressureString == "120/80"
BloodPressureObject == "{systolic: 120, diastolic: 80}"

VitalSigns(bloodPressure, heartRate, temperature, respiratoryRate, oxygenSaturation) ==
    [ bloodPressure |-> bloodPressure, heartRate |-> heartRate,
      temperature |-> temperature, respiratoryRate |-> respiratoryRate,
      oxygenSaturation |-> oxygenSaturation ]

\* No vital-signs block.
NoVitalSigns == VitalSigns(Undefined, Undefined, Undefined, Undefined, Undefined)
HasVitalSigns(vs) == vs # NoVitalSigns

\* toString() of express-validator, applied before a standard validator or
\* sanitizer: an object becomes "[object Object]".
TreatmentObject == "{recommendations: 'reposo'}"
toString(v) ==
    IF v \in {TreatmentObject, BloodPressureObject} THEN "[object Object]" ELSE v

\* trim()
Trim(v) ==
    IF v = " neumonia " THEN "neumonia"
    ELSE IF v = "   " THEN ""
    ELSE v

\* The digit strings in range of isInt({40, 200}), isFloat({35, 42}) and
\* isFloat({70, 100}); the strings Number casts.
HeartRatesInRange == {"72", "40", "200"}
TemperaturesInRange == {"36.5", "35", "42"}
SaturationsInRange == {"98", "70", "100"}
Numeric(v) == v \in HeartRatesInRange \cup TemperaturesInRange \cup SaturationsInRange
                    \cup {"16", "300", "20"}

Optional(v, ok) == v = Undefined \/ ok

\* medicalRecordValidation: the validators of the chain.
medicalRecordValidation(b) ==
    /\ Truthy(b.patient)
    /\ Truthy(b.doctor)
    /\ b.type \in RecordTypes
    /\ Optional(b.diagnosis, Truthy(Trim(toString(b.diagnosis))))
    /\ Optional(b.treatment, Truthy(Trim(toString(b.treatment))))
    /\ Optional(b.vitalSigns.bloodPressure,
                toString(b.vitalSigns.bloodPressure) = BloodPressureString)
    /\ Optional(b.vitalSigns.heartRate, b.vitalSigns.heartRate \in HeartRatesInRange)
    /\ Optional(b.vitalSigns.temperature, b.vitalSigns.temperature \in TemperaturesInRange)
    /\ Optional(b.vitalSigns.oxygenSaturation,
                b.vitalSigns.oxygenSaturation \in SaturationsInRange)

\* The sanitizers of the chain write their result back into the body.
Sanitized(b) ==
    [ b EXCEPT
        !.diagnosis = IF @ = Undefined THEN @ ELSE Trim(toString(@)),
        !.treatment = IF @ = Undefined THEN @ ELSE Trim(toString(@)) ]

\* Casting to the paths of medicalRecordSchema.  treatment and
\* vitalSigns.bloodPressure are nested paths: only an object can be set on
\* them.  The numeric paths take what Number casts.
CastOk(b) ==
    /\ IsObjectId(b.patient)
    /\ IsObjectId(b.doctor)
    /\ b.treatment \in {Undefined, TreatmentObject}
    /\ b.vitalSigns.bloodPressure \in {Undefined, BloodPressureObject}
    /\ Optional(b.vitalSigns.heartRate, Numeric(b.vitalSigns.heartRate))
    /\ Optional(b.vitalSigns.temperature, Numeric(b.vitalSigns.temperature))
    /\ Optional(b.vitalSigns.respiratoryRate, Numeric(b.vitalSigns.respiratoryRate))
    /\ Optional(b.vitalSigns.oxygenSaturation, Numeric(b.vitalSigns.oxygenSaturation))

\* Date.now, the default of the date path: the day the requests are served.
Today == DayNames[2]

RecordDoc(patient, doctor, diagnosis, vitalSigns) ==
    [ patient |-> patient, doctor |-> doctor, date |-> DayNames[1], type |-> "consulta",
      diagnosis |-> diagnosis, recommendations |-> "reposo",
      vitalSigns |-> vitalSigns, notes |-> "sin novedad" ]

\* The required paths of medicalRecordSchema.
RecordSchemaValid(d) ==
    /\ IsObjectId(d.patient)
    /\ IsObjectId(d.doctor)
    /\ d.type \in RecordTypes
    /\ Truthy(d.diagnosis)
    /\ Truthy(d.recommendations)
    /\ Truthy(d.notes)

\* The identifiers of the documents in use; a create is served while one is free.
RecordIdPool == {"r1", "r2"}
NewRecordId == CHOOSE i \in RecordIdPool : i \notin DOMAIN records

\* new MedicalRecord({ ...req.body, createdBy }): the paths of the schema are
\* taken from the body, a key "treatment.recommendations" included; createdBy
\* is not a path of the schema.
NewRecord(b) ==
    [ patient |-> b.patient, doctor |-> b.doctor, date |-> Today, type |-> b.type,
      diagnosis |-> b.diagnosis,
      recommendations |-> IF b.treatment = TreatmentObject THEN "reposo"
                          ELSE b.recommendationsKey,
      vitalSigns |-> b.vitalSigns, notes |-> b.notes ]

ReplyDoc(status, doc) == [Reply(status, "<record>") EXCEPT !.doc = doc]

GuardedRecords(tok, roles, result) ==
    IF ~AuthPasses(tok) THEN [resp |-> AuthFailure(tok), store |-> records]
    ELSE IF roles # {} /\ ~checkRole(roles, tok)
    THEN [resp |-> RoleFailure, store |-> records]
    ELSE result

\* POST /api/medical-records, after auth and checkRole.
CreateMedicalRecordResult(b) ==
    IF ~medicalRecordValidation(b)
    THEN [resp |-> ValidationFailure, store |-> records]
    ELSE IF ~CastOk(Sanitized(b)) \/ ~RecordSchemaValid(NewRecord(Sanitized(b)))
    THEN [resp |-> Reply(500, "Error al crear el registro medico"), store |-> records]
    ELSE [resp |-> ReplyDoc(201, NewRecord(Sanitized(b))),
          store |-> records @@ (NewRecordId :> NewRecord(Sanitized(b)))]

createMedicalRecord(tok, b) ==
    LET r == GuardedRecords(tok, {"doctor", "admin"}, CreateMedicalRecordResult(b)) IN
    /\ Idle
    /\ DOMAIN records # RecordIdPool
    /\ req' = Request("createMedicalRecord", tok, "", b)
    /\ resp' = r.resp
    /\ records' = r.store
    /\ UNCHANGED <<users, appointments, strictQuery, inflight, patientCancelled, registered>>

\* populate('patient') / populate('doctor'): the reference resolves to a user.
Populates(id) == \E u \in users : u._id = id

\* GET /api/medical-records/:id on a collection, after auth.
GetMedicalRecordByIdIn(store, tok, id) ==
    IF ~IsObjectId(id) THEN Reply(500, "Error en el servidor")
    ELSE IF id \notin DOMAIN store THEN Reply(404, "Registro medico no encontrado")
    ELSE IF tok.role = "patient" /\ ~Populates(store[id].patient)
    THEN Reply(500, "Error en el servidor")
    ELSE IF tok.role = "patient" /\ store[id].patient # tok.id
    THEN Reply(403, "No tienes permiso para ver este registro")
    ELSE IF tok.role = "doctor" /\ ~Populates(store[id].doctor)
    THEN Reply(500, "Error en el servidor")
    ELSE IF tok.role = "doctor" /\ store[id].doctor # tok.id
    THEN Reply(403, "No tienes permiso para ver este registro")
    ELSE ReplyDoc(200, store[id])

getMedicalRecordById(tok, id) ==
    /\ Idle
    /\ req' = Request("getMedicalRecordById", tok, id, NoBody)
    /\ resp' = IF ~AuthPasses(tok) THEN AuthFailure(tok)
               ELSE GetMedicalRecordByIdIn(records, tok, id)
    /\ UNCHANGED <<users, appointments, records, strictQuery, inflight,
                   patientCancelled, registered>>

\* Object.assign(record, req.body): every key of the body that is a path of
\* the schema is set on the document; a key "treatment.recommendations" is
\* not a path setter of the document and sets nothing.
AssignBody(d, b) ==
    [ d EXCEPT
        !.patient = IF b.patient = Undefined THEN @ ELSE b.patient,
        !.doctor = IF b.doctor = Undefined THEN @ ELSE b.doctor,
        !.type = IF b.type = Undefined THEN @ ELSE b.type,
        !.diagnosis = IF b.diagnosis = Undefined THEN @ ELSE b.diagnosis,
        !.recommendations = IF b.treatment = TreatmentObject THEN "reposo" ELSE @,
        !.vitalSigns = IF HasVitalSigns(b.vitalSigns) THEN b.vitalSigns ELSE @,
        !.notes = IF b.notes = Undefined THEN @ ELSE b.notes ]

\* PUT /api/medical-records/:id, after auth and checkRole.
UpdateMedicalRecordResult(tok, id, b) ==
    IF ~medicalRecordValidation(b)
    THEN [resp |-> ValidationFailure, store |-> records]
    ELSE IF ~IsObjectId(id)
    THEN [resp |-> Reply(500, "Error al actualizar el registro medico"), store |-> records]
    ELSE IF id \notin DOMAIN records
    THEN [resp |-> Reply(404, "Registro medico no encontrado"), store |-> records]
    ELSE IF tok.role = "doctor" /\ records[id].doctor # tok.id
    THEN [resp |-> Reply(403, "No tienes permiso para actualizar este registro"),
          store |-> records]
    ELSE IF \/ ~CastOk(Sanitized(b))
            \/ ~RecordSchemaValid(AssignBody(records[id], Sanitized(b)))
    THEN [resp |-> Reply(500, "Error al actualizar el registro medico"), store |-> records]
    ELSE [resp |-> ReplyDoc(200, AssignBody(records[id], Sanitized(b))),
          store |-> [records EXCEPT ![id] = AssignBody(@, Sanitized(b))]]

updateMedicalRecord(tok, id, b) ==
    LET r == GuardedRecords(tok, {"doctor", "admin"}, UpdateMedicalRecordResult(tok, id, b)) IN
    /\ Idle
    /\ req' = Request("updateMedicalRecord", tok, id, b)
    /\ resp' = r.resp
    /\ records' = r.store
    /\ UNCHANGED <<users, appointments, strictQuery, inflight, patientCancelled, registered>>

\* A role scope that lets every record through.
InRecordScope_All(tok, r) == TRUE

\* getMedicalRecords: the condition the requester's role puts on the query,
\* in place of the client's filter on the same path.
InRecordScope(tok, r) ==
    /\ tok.role = "patient" => r.patient = tok.id
    /\ tok.role = "doctor" => r.doctor = tok.id

\* getMedicalRecords: the conditions built from the query string.  The
\* role decides the patient path for a patient and the doctor path for a
\* doctor, whatever the client sent for it.
InRecordFilters(tok, q, r) ==
    /\ (Truthy(q.patient) /\ tok.role # "patient") => r.patient = q.patient
    /\ (Truthy(q.doctor) /\ tok.role # "doctor") => r.doctor = q.doctor
    /\ Truthy(q.type) => r.type = q.type
    /\ Truthy(q.startDate) => DayIndex(q.startDate) <= DayIndex(r.date)
    /\ Truthy(q.endDate) => DayIndex(r.date) <= DayIndex(q.endDate)

\* searchValidation of the record routes, on the keys of the query in use.
searchValidation(q) ==
    /\ Optional(q.startDate, IsDate(q.startDate))
    /\ Optional(q.endDate, IsDate(q.endDate))
    /\ Optional(q.type, q.type \in RecordTypes)

\* The ObjectId conditions of the query that reach the store.
RecordQueryCastOk(tok, q) ==
    /\ (Truthy(q.patient) /\ tok.role # "patient") => IsObjectId(q.patient)
    /\ (Truthy(q.doctor) /\ tok.role # "doctor") => IsObjectId(q.doctor)

\* sort({ date: -1 }): the records of a set of ids, latest first.
SortedRecords(ids) ==
    LET n == Cardinality(ids)
        order == CHOOSE f \in [1..n -> ids] :
                    /\ \A i, j \in 1..n : i # j => f[i] # f[j]
                    /\ \A i, j \in 1..n :
                            i < j => DayIndex(records[f[i]].date) >= DayIndex(records[f[j]].date)
    IN [i \in 1..n |-> [id |-> order[i], doc |-> records[order[i]]]]

\* GET /api/medical-records, after auth.  An error of the query goes to the
\* error handler of the application.
GetMedicalRecordsResult(tok, q) ==
    IF ~searchValidation(q) THEN ValidationFailure
    ELSE IF ~RecordQueryCastOk(tok, q) THEN Reply(500, "<error.message>")
    ELSE ReplyList(SortedRecords(
            {i \in DOMAIN records :
                InRecordFilters(tok, q, records[i]) /\ InRecordScope(tok, records[i])}))

getMedicalRecords(tok, q) ==
    /\ Idle
    /\ req' = Request("getMedicalRecords", tok, "", q)
    /\ resp' = IF ~AuthPasses(tok) THEN AuthFailure(tok) ELSE GetMedicalRecordsResult(tok, q)
    /\ UNCHANGED <<users, appointments, records, strictQuery, inflight,
                   patientCancelled, registered>>

----------------------------------------------------------------------------
(* SpecRec: medical-record requests, one at a time *)

RecordQuery(patient, doctor, type, startDate, endDate) ==
    [patient |-> patient, doctor |-> doctor, type |-> type,
     startDate |-> startDate, endDate |-> endDate]

RecordQueries ==
    {RecordQuery(p, d, t, range[1], range[2]) :
        p \in {Undefined, "p2"},
        d \in {Undefined, "d2"},
        t \in {Undefined, "control"},
        range \in {<<Undefined, Undefined>>, <<DayNames[2], Undefined>>,
                   <<Undefined, DayNames[1]>>}}
    \cup {RecordQuery(MalformedId, Undefined, Undefined, Undefined, Undefined),
          RecordQuery(Undefined, Undefined, "cirugia", Undefined, Undefined),
          RecordQuery(Undefined, Undefined, Undefined, NotADate, Undefined)}

RecordBody(patient, doctor, type, diagnosis, treatment, recommendationsKey, vitalSigns, notes) ==
    [ patient |-> patient, doctor |-> doctor, type |-> type, diagnosis |-> diagnosis,
      treatment |-> treatment, recommendationsKey |-> recommendationsKey,
      vitalSigns |-> vitalSigns, notes |-> notes ]

\* A body whose only field is the diagnosis.
DiagnosisOnlyBody(diagnosis) ==
    RecordBody(Undefined, Undefined, Undefined, diagnosis, Undefined, Undefined,
               NoVitalSigns, Undefined)

VitalSignsBlocks ==
    { NoVitalSigns,
      VitalSigns(Undefined, "72", "36.5", "16", "98"),
      VitalSigns(Undefined, "72", Undefined, Undefined, Undefined),
      VitalSigns(BloodPressureString, Undefined, Undefined, Undefined, Undefined),
      VitalSigns(BloodPressureString, "72", "36.5", "16", "98"),
      VitalSigns(BloodPressureObject, "72", Undefined, Undefined, Undefined),
      VitalSigns(Undefined, "300", Undefined, Undefined, Undefined),
      VitalSigns(Undefined, Undefined, Undefined, "rapida", Undefined) }

RecordBodies ==
    {RecordBody("p1", d, "consulta", dg, tr, rk, vs, "sin novedad") :
        d \in {"d1", "d2"},
        dg \in {"gripe", " neumonia ", Undefined},
        tr \in {Undefined, TreatmentObject},
        rk \in {Undefined, "reposo"},
        vs \in VitalSignsBlocks}

\* The bodies of the updates by the authoring doctor.
UpdateRecordBodies ==
    {b \in RecordBodies :
        /\ b.recommendationsKey = Undefined
        /\ b.vitalSigns.temperature = Undefined
        /\ b.vitalSigns.respiratoryRate = Undefined}

OtherRecordBodies ==
    { DiagnosisOnlyBody("neumonia"),
      RecordBody("p1", "d1", "consulta", "gripe", "reposo", Undefined, NoVitalSigns,
                 "sin novedad"),
      RecordBody(UnknownId, "p1", "consulta", "gripe", Undefined, "reposo", NoVitalSigns,
                 "sin novedad"),
      RecordBody("d1", "p1", "consulta", "gripe", Undefined, "reposo", NoVitalSigns,
                 "sin novedad"),
      RecordBody(MalformedId, "d1", "control", "gripe", Undefined, "reposo", NoVitalSigns,
                 "sin novedad"),
      RecordBody("p1", "d1", "cirugia", "gripe", Undefined, "reposo", NoVitalSigns,
                 "sin novedad") }

RecTokens == ValidTokens \cup {NoToken}
RecIdParams == {"r1", "r2", UnknownId, MalformedId}

\* The records the server starts on.
SeedRecordStores ==
    { <<>>,
      "r1" :> RecordDoc("p1", "d1", "gripe", NoVitalSigns),
      "r1" :> RecordDoc("p1", "d1", "gripe",
                        VitalSigns(BloodPressureObject, "72", "36.5", "16", "98")),
      ("r1" :> RecordDoc("p1", "d1", "gripe",
                         VitalSigns(BloodPressureObject, "72", "36.5", "16", "98")))
        @@ ("r2" :> [RecordDoc("p2", "d2", "asma", NoVitalSigns) EXCEPT
                        !.date = Today, !.type = "control"]) }

InitRec ==
    /\ users = SeedUsers
    /\ appointments = <<>>
    /\ records \in SeedRecordStores
    /\ strictQuery \in BOOLEAN
    /\ req = NoRequest
    /\ resp = NoResponse
    /\ inflight = <<>>
    /\ patientCancelled = {}
    /\ registered = {}

NextRec ==
    \/ \E b \in RecordBodies : createMedicalRecord(Doctor1, b)
    \/ \E tok \in RecTokens, b \in OtherRecordBodies : createMedicalRecord(tok, b)
    \/ \E tok \in RecTokens, id \in RecIdParams : getMedicalRecordById(tok, id)
    \/ \E id \in {"r1", "r2"}, b \in UpdateRecordBodies : updateMedicalRecord(Doctor1, id, b)
    \/ \E tok \in RecTokens, id \in RecIdParams, b \in OtherRecordBodies :
            updateMedicalRecord(tok, id, b)
    \/ \E tok \in ListTokens, q \in RecordQueries : getMedicalRecords(tok, q)
    \/ Deliver

SpecRec == InitRec /\ [][NextRec]_vars

\* The requester is the doctor a stored record references.
AuthoringDoctor(tok, id) ==
    /\ tok.state = "ok" /\ tok.role = "doctor"
    /\ id \in DOMAIN records
    /\ records[id].doctor = tok.id

\* The body carries a diagnosis and nothing else.
OnlyDiagnosis(b) == Truthy(b.diagnosis) /\ b = DiagnosisOnlyBody(b.diagnosis)

\* C8: an update by the authoring doctor whose body holds only the diagnosis
\* succeeds; the stored record then has the new diagnosis and is otherwise
\* what it was, and a fetch by id returns it so.
C8_DiagnosisOnlyUpdate ==
    [][(/\ req'.op = "updateMedicalRecord"
        /\ AuthoringDoctor(req'.tok, req'.id)
        /\ OnlyDiagnosis(req'.body))
        => /\ resp'.status = 200
           /\ records' = [records EXCEPT ![req'.id].diagnosis = Trim(req'.body.diagnosis)]
           /\ GetMedicalRecordByIdIn(records', req'.tok, req'.id).doc
                = [records[req'.id] EXCEPT !.diagnosis = Trim(req'.body.diagnosis)]]_vars

\* A create request that passes the guards and the validation chain, with a
\* vital-signs block and values for every required path of the record.
AcceptedCreateWithVitalSigns(tok, b) ==
    /\ tok.state = "ok" /\ tok.role \in {"doctor", "admin"}
    /\ medicalRecordValidation(b)
    /\ HasVitalSigns(b.vitalSigns)
    /\ IsObjectId(b.patient) /\ IsObjectId(b.doctor)
    /\ Truthy(b.diagnosis) /\ Truthy(b.notes)
    /\ b.treatment = Undefined /\ Truthy(b.recommendationsKey)

\* C9: creating a record with a vital-signs block the validation chain
\* accepts succeeds, and fetching the new record by id returns a vital-signs
\* block equal to it field for field.
C9_VitalSignsRoundTrip ==
    [][(req'.op = "createMedicalRecord" /\ AcceptedCreateWithVitalSigns(req'.tok, req'.body))
        => /\ resp'.status = 201
           /\ \E id \in DOMAIN records' \ DOMAIN records :
                GetMedicalRecordByIdIn(records', req'.tok, id).doc.vitalSigns
                    = req'.body.vitalSigns]_vars

----------------------------------------------------------------------------
(* Claims on login *)

\* The stored hash of the user with the body's email is the hash of the
\* body's password.
PasswordMatches(b) ==
    \E u \in users : u.email = Lower(b.email) /\ u.password = Hash(b.password)

\* C11 as stated: a login is answered 401 with a message and no token
\* whenever no user has the given email or the password does not match the
\* stored hash, and 200 with a token and the user's email when the password
\* is the plaintext the user was saved with.
C11_LoginAsStated ==
    [][req'.op = "login"
        => /\ ((\A u \in users : u.email # req'.body.email) \/ ~PasswordMatches(req'.body))
                => (resp'.status = 401 /\ resp'.body # "" /\ resp'.token = NoToken)
           /\ ((\E u \in users : u.email = req'.body.email) /\ PasswordMatches(req'.body))
                => (resp'.status = 200 /\ resp'.token.state = "ok"
                    /\ resp'.user.email = req'.body.email)]_vars

\* C11: a login whose body passes the validation chain (a well-formed email,
\* a non-empty password) is answered 401 "Credenciales invalidas" without a
\* token when no user has the email, lowercased as the store keeps it, or
\* the password does not match the stored hash, and 200 with the user's
\* token and email when the password is the plaintext the user was saved
\* with; a body that fails the chain is answered 400.  No login changes the
\* users.
C11_Login ==
    [][req'.op = "login"
        => /\ users' = users
           /\ ~loginValidation(req'.body) => resp' = ValidationFailure
           /\ (loginValidation(req'.body) /\ ~PasswordMatches(req'.body))
                => resp' = Reply(401, "Credenciales invalidas")
           /\ (loginValidation(req'.body) /\ PasswordMatches(req'.body))
                => /\ resp'.status = 200
                   /\ resp'.token.state = "ok"
                   /\ \E u \in users :
                        /\ u.email = Lower(req'.body.email)
                        /\ u.password = Hash(req'.body.password)
                        /\ resp'.token.id = u._id
                        /\ resp'.token.role = u.role
                        /\ resp'.user.email = u.email]_vars

\* C11 witness: a stored user's email with another password, answered 401.
C11_Witness ==
    /\ req.op = "login"
    /\ \E u \in users : u.email = req.body.email /\ u.password # Hash(req.body.password)
    /\ Truthy(req.body.password)
    /\ resp = Reply(401, "Credenciales invalidas")

----------------------------------------------------------------------------
(* Claims on the appointment list *)

\* What the filters of a query ask for: a date from startDate on, a date up
\* to endDate, the given status.
MatchesAppointmentQuery(q, a) ==
    /\ Truthy(q.startDate) => (IsDate(q.startDate) /\ DayIndex(q.startDate) <= DayIndex(a.date))
    /\ Truthy(q.endDate) => (IsDate(q.endDate) /\ DayIndex(a.date) <= DayIndex(q.endDate))
    /\ Truthy(q.status) => a.status = q.status

Listed(response) == {response.doc.list[i] : i \in DOMAIN response.doc.list}

----------------------------------------------------------------------------
(* Claims on the medical-record list *)

\* What the filters of a query ask for.
MatchesRecordQuery(q, r) ==
    /\ Truthy(q.patient) => r.patient = q.patient
    /\ Truthy(q.doctor) => r.doctor = q.doctor
    /\ Truthy(q.type) => r.type = q.type
    /\ Truthy(q.startDate) => (IsDate(q.startDate) /\ DayIndex(q.startDate) <= DayIndex(r.date))
    /\ Truthy(q.endDate) => (IsDate(q.endDate) /\ DayIndex(r.date) <= DayIndex(q.endDate))

\* C13: whatever patient or doctor filter the requester sends, every record
\* a patient is sent references that patient and every record a doctor is
\* sent references that doctor; an admin whose query is served is sent the
\* stored records that match the filters, and only those.
C13_RecordListScoped ==
    [][(req'.op = "getMedicalRecords" /\ req'.tok.state = "ok")
        => /\ records' = records
           /\ resp'.status \in {200, 400, 500}
           /\ resp'.status = 200 =>
                /\ \A e \in Listed(resp') :
                    /\ e.id \in DOMAIN records /\ e.doc = records[e.id]
                    /\ req'.tok.role = "patient" => e.doc.patient = req'.tok.id
                    /\ req'.tok.role = "doctor" => e.doc.doctor = req'.tok.id
                /\ req'.tok.role = "admin" =>
                    \A i \in DOMAIN records :
                        MatchesRecordQuery(req'.body, records[i])
                            <=> [id |-> i, doc |-> records[i]] \in Listed(resp')]_vars

\* C13 witness: a patient who filters on another patient is sent a
\* non-empty list of their own records while the other patient has a record.
C13_Witness ==
    /\ req.op = "getMedicalRecords"
    /\ req.tok.role = "patient"
    /\ Truthy(req.body.patient) /\ req.body.patient # req.tok.id
    /\ resp.status = 200
    /\ Listed(resp) # {}
    /\ \E i \in DOMAIN records : records[i].patient = req.body.patient

----------------------------------------------------------------------------
(* SpecGuard: every guarded route, with every kind of token *)

GuardTokens == ValidTokens \cup {NoToken} \cup InvalidTokens

GuardCreateBodies ==
    { CreateBody("p1", "d1", DayNames[1], TimeNames[1], "control"),
      CreateBody("p1", "d1", DayNames[1], TimeNames[1], "") }

GuardUpdateBodies ==
    { UpdateBody(DayNames[2], TimeNames[2], "confirmada"),
      StatusOnlyBody("confirmada") }

GuardRecordBodies ==
    { RecordBody("p1", "d1", "consulta", "gripe", Undefined, "reposo", NoVitalSigns,
                 "sin novedad"),
      RecordBody("p1", "d2", "control", "asma", Undefined, Undefined, NoVitalSigns,
                 Undefined),
      DiagnosisOnlyBody("neumonia") }

GuardAppointmentQueries ==
    { AppointmentQuery(Undefined, Undefined, Undefined),
      AppointmentQuery(NotADate, DayNames[1], Undefined) }

GuardRecordQueries ==
    { RecordQuery(Undefined, Undefined, Undefined, Undefined, Undefined),
      RecordQuery(Undefined, Undefined, "cirugia", Undefined, Undefined) }

InitGuard ==
    /\ users = SeedUsers
    /\ appointments \in ConcAppointmentStores
    /\ records \in SeedRecordStores
    /\ strictQuery \in BOOLEAN
    /\ req = NoRequest
    /\ resp = NoResponse
    /\ inflight = <<>>
    /\ patientCancelled = {}
    /\ registered = {}

NextGuard ==
    \/ \E tok \in GuardTokens, b \in GuardCreateBodies : createAppointment(tok, b)
    \/ \E tok \in GuardTokens, q \in GuardAppointmentQueries : getAppointments(tok, q)
    \/ \E tok \in GuardTokens, id \in {"a1", UnknownId} : getAppointmentById(tok, id)
    \/ \E tok \in GuardTokens, id \in {"a1", UnknownId}, b \in GuardUpdateBodies :
            updateAppointment(tok, id, b)
    \/ \E tok \in GuardTokens, id \in {"a1", UnknownId} : cancelAppointment(tok, id)
    \/ \E tok \in GuardTokens, b \in GuardRecordBodies : createMedicalRecord(tok, b)
    \/ \E tok \in GuardTokens, q \in GuardRecordQueries : getMedicalRecords(tok, q)
    \/ \E tok \in GuardTokens, id \in {"r1", UnknownId} : getMedicalRecordById(tok, id)
    \/ \E tok \in GuardTokens, id \in {"r1", UnknownId}, b \in GuardRecordBodies :
            updateMedicalRecord(tok, id, b)
    \/ \E tok \in GuardTokens : getProfile(tok)
    \/ Deliver

SpecGuard == InitGuard /\ [][NextGuard]_vars

MutatingOps ==
    {"createAppointment", "updateAppointment", "createMedicalRecord", "updateMedicalRecord"}

GuardedOps ==
    MutatingOps \cup {"getAppointments", "getAppointmentById", "cancelAppointment",
                      "getMedicalRecords", "getMedicalRecordById", "getProfile"}

\* C14: a create or an update of an appointment or a medical record by an
\* authenticated patient is answered 403 by the role guard, whatever its
\* body and its target, and changes no collection; a doctor or an admin is
\* never answered by the role guard.
C14_RoleGuard ==
    [][(req'.op \in MutatingOps /\ req'.tok.state = "ok")
        => /\ req'.tok.role = "patient"
                => /\ resp' = RoleFailure
                   /\ appointments' = appointments
                   /\ records' = records
                   /\ users' = users
           /\ req'.tok.role \in {"doctor", "admin"} => resp' # RoleFailure]_vars

\* C14 witness: a patient's update of their own stored record, with a body
\* the validation chain accepts, answered by the role guard.
C14_Witness ==
    /\ req.op = "updateMedicalRecord"
    /\ req.tok.state = "ok" /\ req.tok.role = "patient"
    /\ req.id \in DOMAIN records /\ records[req.id].patient = req.tok.id
    /\ medicalRecordValidation(req.body)
    /\ resp = RoleFailure

----------------------------------------------------------------------------
(* Claims on createAppointment *)

\* The request reached the controller with a body the validation chain accepts.
ReachesCreateController ==
    /\ req'.op = "createAppointment"
    /\ AuthPasses(req'.tok) /\ checkRole({"admin", "doctor"}, req'.tok)
    /\ appointmentValidation(req'.body)

\* C16: a create whose patientId resolves to no user with role patient is
\* answered 404 for the patient; otherwise one whose doctorId resolves to no
\* user with role doctor is answered 404 for the doctor; both whatever the
\* state of the slot, and the stored appointments do not change.
C16_ParticipantsChecked ==
    [][ReachesCreateController
        => LET b == req'.body IN
           /\ FindUserByIdAndRole(b.patientId, "patient") = {}
                => /\ resp' = Reply(404, "Paciente no encontrado")
                   /\ appointments' = appointments
           /\ (/\ FindUserByIdAndRole(b.patientId, "patient") # {}
               /\ FindUserByIdAndRole(b.doctorId, "doctor") = {})
                => /\ resp' = Reply(404, "Doctor no encontrado")
                   /\ appointments' = appointments]_vars

\* C17: a create that reaches the controller with an accepted body, names an
\* existing patient and an existing doctor and targets a free slot is
\* answered 201 and stores exactly one new appointment, pending, with the
\* requested patient, doctor, date and start time.
C17_CreateSucceeds ==
    [][(/\ ReachesCreateController
        /\ FindUserByIdAndRole(req'.body.patientId, "patient") # {}
        /\ FindUserByIdAndRole(req'.body.doctorId, "doctor") # {}
        /\ ~SlotTaken(req'.body.doctorId, req'.body.date, req'.body.time))
        => /\ resp'.status = 201
           /\ \E id \in DOMAIN appointments' \ DOMAIN appointments :
                /\ DOMAIN appointments' = DOMAIN appointments \cup {id}
                /\ \A other \in DOMAIN appointments : appointments'[other] = appointments[other]
                /\ appointments'[id].status = "pendiente"
                /\ appointments'[id].patient = req'.body.patientId
                /\ appointments'[id].doctor = req'.body.doctorId
                /\ appointments'[id].date = req'.body.date
                /\ appointments'[id].startTime = req'.body.time]_vars

----------------------------------------------------------------------------
(* Claims on updateAppointment and cancelAppointment *)

\* The request passed auth and checkRole on PUT /api/appointments/:id.
PassesUpdateGuards ==
    /\ req'.op = "updateAppointment"
    /\ AuthPasses(req'.tok) /\ checkRole({"admin", "doctor"}, req'.tok)

UpdatableFields ==
    {"date", "startTime", "endTime", "type", "status", "notes", "diagnosis", "prescription"}

\* The updatable fields the body carries.
PresentFields(b) == {f \in UpdatableFields : b[f] # Undefined}

\* The values the body carries are values the schema takes.
UpdateValuesValid(b) ==
    /\ b.date # Undefined => IsDate(b.date)
    /\ b.type # Undefined => b.type \in AppointmentTypes
    /\ b.status # Undefined => b.status \in AppointmentStatuses

\* C18: an update whose id matches no appointment is answered 404; one whose
\* requester is neither an admin nor the doctor of the appointment is
\* answered 403; the stored appointments do not change in either case.
C18_UpdateRejections ==
    [][PassesUpdateGuards
        => /\ req'.id \notin DOMAIN appointments
                => resp'.status = 404 /\ appointments' = appointments
           /\ (/\ req'.id \in DOMAIN appointments
               /\ ~CanModifyAppointment(req'.tok, appointments[req'.id]))
                => resp'.status = 403 /\ appointments' = appointments]_vars

\* C19: an update by an admin or by the doctor of the appointment, whose body
\* carries any subset of the updatable fields, is answered 200; every field
\* the body carries takes the value sent and every other field keeps the
\* stored value.
C19_PartialUpdate ==
    [][(/\ PassesUpdateGuards
        /\ req'.id \in DOMAIN appointments
        /\ CanModifyAppointment(req'.tok, appointments[req'.id])
        /\ UpdateValuesValid(req'.body))
        => /\ resp'.status = 200
           /\ DOMAIN appointments' = DOMAIN appointments
           /\ \A i \in DOMAIN appointments \ {req'.id} : appointments'[i] = appointments[i]
           /\ \A f \in DOMAIN appointments[req'.id] :
                appointments'[req'.id][f] =
                    IF f \in PresentFields(req'.body) THEN req'.body[f]
                    ELSE appointments[req'.id][f]]_vars

----------------------------------------------------------------------------
(* Claims on reading and updating one medical record *)

\* The requester is the patient or the doctor the record references, or an admin.
MayReadRecord(tok, r) ==
    tok.role = "admin" \/ r.patient = tok.id \/ r.doctor = tok.id

\* C21: a read of one medical record by id is answered 404 when the id
\* matches no stored record; otherwise it is answered 200 with the record
\* when the requester is the patient or the doctor the record references or
\* an admin, whatever the requester's role, and 403 for every other
\* requester.
C21_RecordReadAuthorization ==
    [][(req'.op = "getMedicalRecordById" /\ AuthPasses(req'.tok))
        => /\ req'.id \notin DOMAIN records => resp'.status = 404
           /\ (req'.id \in DOMAIN records /\ MayReadRecord(req'.tok, records[req'.id]))
                => resp' = ReplyDoc(200, records[req'.id])
           /\ (req'.id \in DOMAIN records /\ ~MayReadRecord(req'.tok, records[req'.id]))
                => resp'.status = 403]_vars

\* The request passed auth and checkRole on PUT /api/medical-records/:id.
PassesRecordUpdateGuards ==
    /\ req'.op = "updateMedicalRecord"
    /\ AuthPasses(req'.tok) /\ checkRole({"doctor", "admin"}, req'.tok)

\* Every field the body carries passes its check of the validation chain:
\* the body passes once the fields required of a create are filled in.
CarriedFieldsValid(b) ==
    medicalRecordValidation(
        [ b EXCEPT !.patient = IF @ = Undefined THEN "p1" ELSE @,
                   !.doctor = IF @ = Undefined THEN "d1" ELSE @,
                   !.type = IF @ = Undefined THEN "consulta" ELSE @ ])

\* The requester is an admin or the doctor the record references.
MayUpdateRecord(tok, r) == tok.role = "admin" \/ r.doctor = tok.id

\* C22: an update of a medical record, with a body whose fields are all
\* well formed, is answered 404 when its id matches no stored record; one
\* whose requester is neither an admin nor the doctor the record references
\* when the request is served is answered 403; the stored records do not
\* change in either case.
C22_RecordUpdateRejections ==
    [][(PassesRecordUpdateGuards /\ CarriedFieldsValid(req'.body))
        => /\ req'.id \notin DOMAIN records
                => resp'.status = 404 /\ records' = records
           /\ (req'.id \in DOMAIN records /\ ~MayUpdateRecord(req'.tok, records[req'.id]))
                => resp'.status = 403 /\ records' = records]_vars

\* C23: in every state reached by medical-record create and update requests,
\* the patient of each stored record is an existing user with role patient
\* and its doctor is an existing user with role doctor.
C23_RecordReferencesResolve ==
    \A i \in DOMAIN records :
        /\ FindUserByIdAndRole(records[i].patient, "patient") # {}
        /\ FindUserByIdAndRole(records[i].doctor, "doctor") # {}

----------------------------------------------------------------------------
(* SpecConcReg: two register requests in flight *)

\* The event loop interleaves the two requests at the awaits of the
\* controller: the lookup by email and the save are one store round trip each.
ReceiveRegister(w, b) ==
    /\ inflight[w].pc = "idle"
    /\ inflight' = [inflight EXCEPT ![w] =
            [IdleWorker EXCEPT
                !.body = b,
                !.pc = IF registerValidation(b) THEN "findUser" ELSE "done",
                !.resp = IF registerValidation(b) THEN NoResponse ELSE ValidationFailure]]
    /\ UNCHANGED <<users, appointments, records, strictQuery, req, resp, patientCancelled, registered>>

SameIdentityRequested(b1, b2) ==
    Lower(b1.email) = Lower(b2.email) \/ b1.documentId = b2.documentId

\* User.findOne({ email }).  raced records that the other request had passed
\* its own lookup with the same email or document identifier and had not
\* saved yet.
FindExistingUser(w) ==
    LET b == inflight[w].body
        o == inflight[Other(w)] IN
    /\ inflight[w].pc = "findUser"
    /\ IF FindUserByEmail(b.email) # {}
       THEN Finish(w, Reply(400, "El usuario ya existe"))
       ELSE inflight' = [inflight EXCEPT
                ![w].pc = "save",
                ![w].passedCheck = TRUE,
                ![w].raced = o.pc = "save" /\ SameIdentityRequested(o.body, b)]
    /\ UNCHANGED <<users, appointments, records, strictQuery, req, resp, patientCancelled, registered>>

\* user.save(): schema validation, the pre('save') hook, then the insert,
\* which the unique indexes on email and documentId can reject (11000).
SaveUser(w) ==
    LET doc == NewUser(inflight[w].body) IN
    /\ inflight[w].pc = "save"
    /\ \E i \in UserIdPool : \A u \in users : u._id # i
    /\ IF ~UserSchemaValid(doc)
       THEN /\ Finish(w, Reply(500, "Error en el servidor"))
            /\ UNCHANGED users
       ELSE IF DuplicateKeyField(doc) = "email"
       THEN /\ Finish(w, Reply(400, "Ya existe un usuario con ese correo electronico"))
            /\ UNCHANGED users
       ELSE IF DuplicateKeyField(doc) = "documentId"
       THEN /\ Finish(w, Reply(400, "Ya existe un usuario con ese documento"))
            /\ UNCHANGED users
       ELSE /\ Finish(w, AuthReply(200, "", PreSave(doc)))
            /\ users' = users \cup {PreSave(doc)}
    /\ UNCHANGED <<appointments, records, strictQuery, req, resp, patientCancelled, registered>>

ConcRegisterBodies ==
    {RegisterBody(e, "password123", "Test User", "patient", d) :
        e \in {"alice@example.com", "new@example.com", "New@Example.com", "not-an-email"},
        d \in {"DOC-1", "ABC123456", "XYZ987654"}}

InitConcReg ==
    /\ users \in SeedUserSets
    /\ appointments = <<>>
    /\ records = <<>>
    /\ strictQuery \in BOOLEAN
    /\ req = NoRequest
    /\ resp = NoResponse
    /\ inflight = [w \in Workers |-> IdleWorker]
    /\ patientCancelled = {}
    /\ registered = {}

NextConcReg ==
    \/ \E w \in Workers, b \in ConcRegisterBodies : ReceiveRegister(w, b)
    \/ \E w \in Workers : FindExistingUser(w)
    \/ \E w \in Workers : SaveUser(w)
    \/ \E w \in Workers : Respond(w)

SpecConcReg == InitConcReg /\ [][NextConcReg]_vars

DuplicateKeyReplies ==
    { Reply(400, "Ya existe un usuario con ese correo electronico"),
      Reply(400, "Ya existe un usuario con ese documento") }

\* C24: no two stored users share an email or a document identifier; and
\* when two register requests with the same email or the same document
\* identifier both pass the lookup before either saves, at most one of them
\* is answered with success and the other is answered 400 naming the field
\* that collides.
C24_ConcurrentRegisterUnique ==
    /\ \A u, v \in users :
            u # v => u.email # v.email /\ u.documentId # v.documentId
    /\ \A w \in Workers :
        LET me == inflight[w]
            o == inflight[Other(w)] IN
        (/\ me.pc = "done" /\ me.raced
         /\ o.pc = "done" /\ o.passedCheck
         /\ SameIdentityRequested(o.body, me.body))
        => /\ ~(me.resp.status = 200 /\ o.resp.status = 200)
           /\ me.resp \in DuplicateKeyReplies \/ o.resp \in DuplicateKeyReplies

----------------------------------------------------------------------------
(* Claims on the life of an appointment *)

ClosedStatuses == {"cancelada", "completada"}

\* C25: the status of every stored appointment is one of pendiente,
\* confirmada, cancelada and completada, and no request moves an appointment
\* that is cancelled or completed back to pendiente or confirmada.
C25_StatusLifecycle ==
    [][/\ \A i \in DOMAIN appointments : appointments[i].status \in AppointmentStatuses
       /\ \A i \in DOMAIN appointments' : appointments'[i].status \in AppointmentStatuses
       /\ \A i \in DOMAIN appointments \cap DOMAIN appointments' :
            appointments[i].status \in ClosedStatuses
                => appointments'[i].status \in ClosedStatuses]_vars

\* C26: no request changes the patient or the doctor of a stored appointment,
\* whatever its requester and its body, a body that carries patientId and
\* doctorId included; no appointment is removed; so the requesters allowed
\* to read, update or cancel an appointment stay the same.
C26_ParticipantsFixed ==
    [][\A i \in DOMAIN appointments :
        /\ i \in DOMAIN appointments'
        /\ appointments'[i].patient = appointments[i].patient
        /\ appointments'[i].doctor = appointments[i].doctor
        /\ \A tok \in ValidTokens :
            /\ CanViewAppointment(tok, appointments'[i]) = CanViewAppointment(tok, appointments[i])
            /\ CanModifyAppointment(tok, appointments'[i])
                    = CanModifyAppointment(tok, appointments[i])]_vars

\* C26 witness: an update answered 200 whose body names a patient and a
\* doctor other than the ones of the appointment, which still has its own.
C26_Witness ==
    /\ req.op = "updateAppointment"
    /\ resp.status = 200
    /\ req.id \in DOMAIN appointments
    /\ Truthy(req.body.patientId) /\ Truthy(req.body.doctorId)
    /\ req.body.patientId # appointments[req.id].patient
    /\ req.body.doctorId # appointments[req.id].doctor
    /\ appointments[req.id].doctor = req.tok.id

=============================================================================
